---- MODULE Spec2Model ----
(***************************************************************************)
(* Model of src/src/main.rs: the one-shot `lock` transaction submitter.    *)
(*                                                                         *)
(* main() is a straight line of suspending calls on one client.  The state *)
(* of one run is the record `run`: the position in main (pc), the locals   *)
(* bound so far, the trace of observable events (calls made on the chain   *)
(* client, each with whether it returned Ok, and lines printed) and the    *)
(* process outcome.  The process                                           *)
(* environment is `env`.  `shadow` is a second run of the same program,    *)
(* used only by PairSpec, which drives two runs in lock-step on the same   *)
(* environment and the same client responses except for the value returned *)
(* by get_balance(user).                                                   *)
(*                                                                         *)
(* Library behaviour the model relies on (ethers 2.x / uint crate):        *)
(*  - U256 `*` and `+` panic on overflow ("arithmetic operation overflow") *)
(*    in every build profile; they never wrap.                             *)
(*  - U256::from_dec_str rejects a non-decimal character and a value that  *)
(*    does not fit; `str::parse::<U256>()` reads HEXADECIMAL digits.       *)
(*  - format_units(_, "ether" | "gwei") of a U256 cannot fail.             *)
(*  - Option::unwrap_or_default() of an absent U64/U256 is 0.              *)
(* Absent (None) is <<>> and Some(v) is <<v>> throughout.  A local that is *)
(* not bound yet holds -1 (numbers) or "-" (text).                         *)
(***************************************************************************)
EXTENDS Integers, Sequences, FiniteSets

VARIABLES env, run, shadow

vars == <<env, run, shadow>>

(***************************************************************************)
(* Bounds.  U256 is scaled down to Width bits so that overflow is reached. *)
(***************************************************************************)
Width == 3
MaxStatus == 2

Modulus == 2 ^ Width
MaxU256 == Modulus - 1
U256 == 0 .. MaxU256

(***************************************************************************)
(* The process environment.  A variable is absent (<<>>) or holds a text.  *)
(* AMOUNT and NONCE hold digit strings, written as sequences of character  *)
(* values: 0..9 for '0'..'9', 10..15 for 'a'..'f', 16 for any other        *)
(* character.  The other variables hold opaque texts; the texts their      *)
(* parsers accept are listed in the sets below.                            *)
(***************************************************************************)
Urls == {"http://rpc"}
Keys == {"0xkey"}
ChainIds == {"1"}
Addresses == {"0xC0", "0xA1", "0x70"}
HexBytes == {"0xabcd"}

AmountTexts == {<<0>>, <<3>>, <<1, 0>>, <<10>>}
NonceTexts == {<<5>>, <<10>>, <<16>>}

Opt(S) == {<<>>} \cup {<<s>> : s \in S}

Envs ==
  [RPC_URL : Opt(Urls \cup {"not a url"}),
   PRIVATE_KEY : Opt(Keys \cup {"not a key"}),
   CHAIN_ID : Opt(ChainIds \cup {"x"}),
   CONTRACT_ADDRESS : Opt({"0xC0", "zz"}),
   USER_ADDRESS : Opt({"0xA1", "zz"}),
   TOKEN_ADDRESS : Opt({"0x70", "zz"}),
   AMOUNT : Opt(AmountTexts),
   NONCE : Opt(NonceTexts),
   SIGNATURE : Opt(HexBytes \cup {"zz"})]

(***************************************************************************)
(* Parsers (main.rs lines 17-24, 37-38).  Each returns <<v>> or <<>>.      *)
(***************************************************************************)
RECURSIVE DigitFold(_, _, _, _, _)
DigitFold(text, i, acc, base, maxDigit) ==
  IF i > Len(text) THEN <<acc>>
  ELSE IF text[i] > maxDigit THEN <<>>
  ELSE IF acc * base > MaxU256 THEN <<>>
  ELSE IF acc * base + text[i] > MaxU256 THEN <<>>
  ELSE DigitFold(text, i + 1, acc * base + text[i], base, maxDigit)

\* U256::from_dec_str (line 22)
FromDecStr(text) == DigitFold(text, 1, 0, 10, 9)

\* <U256 as FromStr>::from_str (line 23): hexadecimal
FromHexStr(text) == DigitFold(text, 1, 0, 16, 15)

ParseIn(S, text) == IF text \in S THEN <<text>> ELSE <<>>

ParseChainId(text) == ParseIn(ChainIds, text)
ParseAddress(text) == ParseIn(Addresses, text)
ParseBytes(text) == ParseIn(HexBytes, text)
ParseUrl(text) == ParseIn(Urls, text)
ParseWallet(text) == ParseIn(Keys, text)

\* wallet.address() (line 39): the address derived from the signing key
AddressOf(key) == "0x3A"

(***************************************************************************)
(* The run record.                                                         *)
(***************************************************************************)
NoCall == [to |-> "-", args |-> <<>>, value |-> -1]

NoConfig ==
  [rpc_url |-> "-", private_key |-> "-", chain_id |-> "-",
   contract_address |-> "-", user |-> "-", token |-> "-",
   amount |-> -1, nonce |-> -1, signature |-> "-"]

InitRun ==
  [pc |-> "load", cfg |-> NoConfig, wallet_address |-> "-",
   balance |-> -1, user_balance |-> -1, gas_price |-> -1,
   call |-> NoCall, gas_estimate |-> -1, total_cost |-> -1,
   tx |-> "-", receipt |-> <<>>, trace |-> <<>>, outcome |-> "running"]

ChainOps == {"get_balance", "get_gas_price", "estimate_gas", "submit", "await_receipt"}

\* println!(...)
Println(r, line) ==
  [r EXCEPT !.trace = Append(@, [ev |-> line, addr |-> "-", call |-> NoCall, ok |-> TRUE])]

\* a call on the chain client, with whether it returned Ok
Invoke(r, op, addr, call, ok) ==
  [r EXCEPT !.trace = Append(@, [ev |-> op, addr |-> addr, call |-> call, ok |-> ok])]

\* `?` on an Err: main returns Err, the process exits non-zero
Fail(r) == [r EXCEPT !.pc = "done", !.outcome = "error"]

\* panic!: the process aborts, exit status 101
Panic(r) == [r EXCEPT !.pc = "done", !.outcome = "panic"]

\* return Ok(()) / falling off the end of main
Finish(r) == [r EXCEPT !.pc = "done", !.outcome = "ok"]

(***************************************************************************)
(* Lines 13-35: read and parse the environment.                            *)
(***************************************************************************)
ConfigLoads(e) ==
  /\ e.RPC_URL # <<>>
  /\ e.PRIVATE_KEY # <<>>
  /\ e.CHAIN_ID # <<>> /\ ParseChainId(e.CHAIN_ID[1]) # <<>>
  /\ e.CONTRACT_ADDRESS # <<>> /\ ParseAddress(e.CONTRACT_ADDRESS[1]) # <<>>
  /\ e.USER_ADDRESS # <<>> /\ ParseAddress(e.USER_ADDRESS[1]) # <<>>
  /\ e.TOKEN_ADDRESS # <<>> /\ ParseAddress(e.TOKEN_ADDRESS[1]) # <<>>
  /\ e.AMOUNT # <<>> /\ FromDecStr(e.AMOUNT[1]) # <<>>
  /\ e.NONCE # <<>> /\ FromHexStr(e.NONCE[1]) # <<>>
  /\ e.SIGNATURE # <<>> /\ ParseBytes(e.SIGNATURE[1]) # <<>>

ParseConfig(e) ==
  [rpc_url |-> e.RPC_URL[1],
   private_key |-> e.PRIVATE_KEY[1],
   chain_id |-> ParseChainId(e.CHAIN_ID[1])[1],
   contract_address |-> ParseAddress(e.CONTRACT_ADDRESS[1])[1],
   user |-> ParseAddress(e.USER_ADDRESS[1])[1],
   token |-> ParseAddress(e.TOKEN_ADDRESS[1])[1],
   amount |-> FromDecStr(e.AMOUNT[1])[1],
   nonce |-> FromHexStr(e.NONCE[1])[1],
   signature |-> ParseBytes(e.SIGNATURE[1])[1]]

LoadConfig(r, e) ==
  IF ~ConfigLoads(e) THEN Fail(r)
  ELSE Println([r EXCEPT !.cfg = ParseConfig(e), !.pc = "connect"],
             "=== Configuration ===")

(***************************************************************************)
(* Lines 37-44: provider, wallet, client.  No network activity.            *)
(***************************************************************************)
\* variant: the signing key is not validated
ClientBuilds_NoKeyCheck(cfg) == ParseUrl(cfg.rpc_url) # <<>>

ClientBuilds(cfg) ==
  /\ ParseUrl(cfg.rpc_url) # <<>>
  /\ ParseWallet(cfg.private_key) # <<>>

Connect(r) ==
  IF ~ClientBuilds(r.cfg) THEN Fail(r)
  ELSE Println([r EXCEPT !.wallet_address = AddressOf(r.cfg.private_key),
                       !.pc = "wallet_balance"],
             "=== Wallet Information ===")

(***************************************************************************)
(* Client responses.                                                       *)
(***************************************************************************)
Err == [ok |-> FALSE, val |-> 0]
Ok(v) == [ok |-> TRUE, val |-> v]

NumResponses == {Err} \cup {Ok(v) : v \in U256}
UserBalanceResponses == {Err, Ok(0), Ok(MaxU256)}
SendResponses == {[ok |-> FALSE, val |-> "-"], [ok |-> TRUE, val |-> "0xhash"]}

Receipts ==
  [block_number : {<<1>>},
   gas_used : {<<>>, <<1>>},
   status : Opt(0 .. MaxStatus)]

AwaitResponses ==
  {[ok |-> FALSE, receipt |-> <<>>]} \cup
  {[ok |-> TRUE, receipt |-> o] : o \in Opt(Receipts)}

(***************************************************************************)
(* Lines 47-48 and 51-52: the two balance queries.                         *)
(***************************************************************************)
GetWalletBalance(r, resp) ==
  LET q == Invoke(r, "get_balance", r.wallet_address, NoCall, resp.ok) IN
  IF ~resp.ok THEN Fail(q)
  ELSE Println([q EXCEPT !.balance = resp.val, !.pc = "user_balance"],
             "Wallet Balance")

GetUserBalance(r, resp) ==
  LET q == Invoke(r, "get_balance", r.cfg.user, NoCall, resp.ok) IN
  IF ~resp.ok THEN Fail(q)
  ELSE Println([q EXCEPT !.user_balance = resp.val, !.pc = "gas_price"],
             "User Balance")

(***************************************************************************)
(* Lines 56-64: gas price, then the call object is built.                  *)
(***************************************************************************)
\* variant: the call carries no attached value
BuildCall_ZeroValue(cfg) ==
  [to |-> cfg.contract_address,
   args |-> <<cfg.user, cfg.token, cfg.amount, cfg.nonce, cfg.signature>>,
   value |-> 0]

BuildCall(cfg) ==
  [to |-> cfg.contract_address,
   args |-> <<cfg.user, cfg.token, cfg.amount, cfg.nonce, cfg.signature>>,
   value |-> cfg.amount]

GetGasPrice(r, resp) ==
  LET q == Invoke(r, "get_gas_price", "-", NoCall, resp.ok) IN
  IF ~resp.ok THEN Fail(q)
  ELSE Println(Println([q EXCEPT !.gas_price = resp.val,
                             !.call = BuildCall(r.cfg),
                             !.pc = "estimate"],
                   "Current Gas Price"),
             "=== Transaction Details ===")

(***************************************************************************)
(* Lines 67-87: estimate, total cost, affordability check.                 *)
(***************************************************************************)
\* U256 * U256 and U256 + U256: <<>> stands for the overflow panic
\* variant: wrapping multiplication
CheckedMul_Wrapping(a, b) == <<(a * b) % Modulus>>

CheckedMul(a, b) == IF a * b > MaxU256 THEN <<>> ELSE <<a * b>>

CheckedAdd(a, b) == IF a + b > MaxU256 THEN <<>> ELSE <<a + b>>

\* line 70
TotalCost(gas_estimate, gas_price, amount) ==
  LET fee == CheckedMul(gas_estimate, gas_price) IN
  IF fee = <<>> THEN <<>> ELSE CheckedAdd(fee[1], amount)

\* variant: the check reads the target user's balance
InsufficientFunds_UserBalance(r, total_cost) == total_cost > r.user_balance

\* line 73
InsufficientFunds(r, total_cost) == total_cost > r.balance

\* variant: a failed estimate is tried again
EstimateFailed_Retry(r) == Println(r, "Failed to estimate gas")

\* lines 82-85: the Err arm prints and falls out of the match
EstimateFailed(r) == [Println(r, "Failed to estimate gas") EXCEPT !.pc = "send"]

EstimateGas(r, resp) ==
  LET q == Invoke(r, "estimate_gas", "-", r.call, resp.ok) IN
  IF ~resp.ok THEN EstimateFailed(q)
  ELSE
    LET g == Println([q EXCEPT !.gas_estimate = resp.val], "Estimated Gas")
        total == TotalCost(resp.val, r.gas_price, r.cfg.amount)
    IN
    IF total = <<>> THEN Panic(g)
    ELSE
      LET t == Println([g EXCEPT !.total_cost = total[1]], "Total Transaction Cost") IN
      IF InsufficientFunds(t, total[1])
      THEN Finish(Println(t, "INSUFFICIENT FUNDS"))
      ELSE [Println(t, "Sufficient funds available") EXCEPT !.pc = "send"]

(***************************************************************************)
(* Lines 89-93: sign and broadcast.                                        *)
(***************************************************************************)
\* variant: a rejected broadcast is not propagated
Send_IgnoreError(r, resp) ==
  LET q == Invoke(Println(r, "=== Sending Transaction ==="), "submit", "-", r.call, resp.ok) IN
  Println(Println([q EXCEPT !.tx = resp.val, !.pc = "await"],
                  "Transaction Hash"),
          "Waiting for transaction to be mined")

Send(r, resp) ==
  LET q == Invoke(Println(r, "=== Sending Transaction ==="), "submit", "-", r.call, resp.ok) IN
  IF ~resp.ok THEN Fail(q)
  ELSE Println(Println([q EXCEPT !.tx = resp.val, !.pc = "await"],
                   "Transaction Hash"),
             "Waiting for transaction to be mined")

(***************************************************************************)
(* Lines 95-107: wait for the receipt and report.                          *)
(***************************************************************************)
\* variant: any non-zero status counts as success
StatusLabel_NonZero(status) ==
  LET s == IF status = <<>> THEN 0 ELSE status[1] IN
  IF s # 0 THEN "Status: Success" ELSE "Status: Failed"

\* r.status.unwrap_or_default() == U64::from(1)  (line 100)
StatusLabel(status) ==
  LET s == IF status = <<>> THEN 0 ELSE status[1] IN
  IF s = 1 THEN "Status: Success" ELSE "Status: Failed"

\* variant: an absent receipt is an error
Report_NoneFatal(r, receipt) ==
  IF receipt = <<>> THEN Fail(Println(r, "Transaction receipt not found"))
  ELSE Finish(Println(Println(Println(r, "Transaction mined"), "Gas Used"),
                      StatusLabel(receipt[1].status)))

\* the match on the receipt (lines 96-107)
Report(r, receipt) ==
  IF receipt = <<>> THEN Finish(Println(r, "Transaction receipt not found"))
  ELSE Finish(Println(Println(Println(r, "Transaction mined"), "Gas Used"),
                    StatusLabel(receipt[1].status)))

AwaitReceipt(r, resp) ==
  LET q == Invoke(r, "await_receipt", r.tx, NoCall, resp.ok) IN
  IF ~resp.ok THEN Fail(q)
  ELSE Report([q EXCEPT !.receipt = resp.receipt], resp.receipt)

(***************************************************************************)
(* One run.                                                                *)
(***************************************************************************)
Init ==
  /\ env \in Envs
  /\ run = InitRun
  /\ shadow = InitRun

DoLoadConfig ==
  /\ run.pc = "load"
  /\ run' = LoadConfig(run, env)
  /\ UNCHANGED <<env, shadow>>

DoConnect ==
  /\ run.pc = "connect"
  /\ run' = Connect(run)
  /\ UNCHANGED <<env, shadow>>

DoGetWalletBalance ==
  /\ run.pc = "wallet_balance"
  /\ \E resp \in NumResponses : run' = GetWalletBalance(run, resp)
  /\ UNCHANGED <<env, shadow>>

DoGetUserBalance ==
  /\ run.pc = "user_balance"
  /\ \E resp \in UserBalanceResponses : run' = GetUserBalance(run, resp)
  /\ UNCHANGED <<env, shadow>>

DoGetGasPrice ==
  /\ run.pc = "gas_price"
  /\ \E resp \in NumResponses : run' = GetGasPrice(run, resp)
  /\ UNCHANGED <<env, shadow>>

DoEstimateGas ==
  /\ run.pc = "estimate"
  /\ \E resp \in NumResponses : run' = EstimateGas(run, resp)
  /\ UNCHANGED <<env, shadow>>

DoSend ==
  /\ run.pc = "send"
  /\ \E resp \in SendResponses : run' = Send(run, resp)
  /\ UNCHANGED <<env, shadow>>

DoAwaitReceipt ==
  /\ run.pc = "await"
  /\ \E resp \in AwaitResponses : run' = AwaitReceipt(run, resp)
  /\ UNCHANGED <<env, shadow>>

Next ==
  \/ DoLoadConfig
  \/ DoConnect
  \/ DoGetWalletBalance
  \/ DoGetUserBalance
  \/ DoGetGasPrice
  \/ DoEstimateGas
  \/ DoSend
  \/ DoAwaitReceipt

Spec == Init /\ [][Next]_vars

(***************************************************************************)
(* Two runs in lock-step: same environment, same client responses, except  *)
(* that get_balance(user), when it succeeds, may return different values.  *)
(***************************************************************************)
PairLoadConfig ==
  /\ run.pc = "load" /\ shadow.pc = "load"
  /\ run' = LoadConfig(run, env)
  /\ shadow' = LoadConfig(shadow, env)
  /\ UNCHANGED env

PairConnect ==
  /\ run.pc = "connect" /\ shadow.pc = "connect"
  /\ run' = Connect(run)
  /\ shadow' = Connect(shadow)
  /\ UNCHANGED env

PairGetWalletBalance ==
  /\ run.pc = "wallet_balance" /\ shadow.pc = "wallet_balance"
  /\ \E resp \in NumResponses :
       /\ run' = GetWalletBalance(run, resp)
       /\ shadow' = GetWalletBalance(shadow, resp)
  /\ UNCHANGED env

PairGetUserBalance ==
  /\ run.pc = "user_balance" /\ shadow.pc = "user_balance"
  /\ \E resp \in UserBalanceResponses, resp2 \in UserBalanceResponses :
       /\ resp.ok = resp2.ok
       /\ run' = GetUserBalance(run, resp)
       /\ shadow' = GetUserBalance(shadow, resp2)
  /\ UNCHANGED env

PairGetGasPrice ==
  /\ run.pc = "gas_price" /\ shadow.pc = "gas_price"
  /\ \E resp \in NumResponses :
       /\ run' = GetGasPrice(run, resp)
       /\ shadow' = GetGasPrice(shadow, resp)
  /\ UNCHANGED env

PairEstimateGas ==
  /\ run.pc = "estimate" /\ shadow.pc = "estimate"
  /\ \E resp \in NumResponses :
       /\ run' = EstimateGas(run, resp)
       /\ shadow' = EstimateGas(shadow, resp)
  /\ UNCHANGED env

PairSend ==
  /\ run.pc = "send" /\ shadow.pc = "send"
  /\ \E resp \in SendResponses :
       /\ run' = Send(run, resp)
       /\ shadow' = Send(shadow, resp)
  /\ UNCHANGED env

PairAwaitReceipt ==
  /\ run.pc = "await" /\ shadow.pc = "await"
  /\ \E resp \in AwaitResponses :
       /\ run' = AwaitReceipt(run, resp)
       /\ shadow' = AwaitReceipt(shadow, resp)
  /\ UNCHANGED env

PairNext ==
  \/ PairLoadConfig
  \/ PairConnect
  \/ PairGetWalletBalance
  \/ PairGetUserBalance
  \/ PairGetGasPrice
  \/ PairEstimateGas
  \/ PairSend
  \/ PairAwaitReceipt

PairSpec == Init /\ [][PairNext]_vars

(***************************************************************************)
(* Vocabulary of the properties.                                           *)
(***************************************************************************)
Events(r, name) == {i \in DOMAIN r.trace : r.trace[i].ev = name}
Called(r, op) == Events(r, op) # {}
Printed(r, line) == Events(r, line) # {}
Count(r, op) == Cardinality(Events(r, op))
Returned(r, op, ok) == \E i \in Events(r, op) : r.trace[i].ok = ok

IsChainOp(e) == e.ev \in ChainOps
ChainCalls(r) == SelectSeq(r.trace, IsChainOp)
OpNames(calls) == [i \in DOMAIN calls |-> calls[i].ev]

Verdicts == {"INSUFFICIENT FUNDS", "Sufficient funds available"}
Verdict(r) == {v \in Verdicts : Printed(r, v)}

\* gas_estimate * gas_price + amount over the unbounded integers
MathTotalCost(r) == r.gas_estimate * r.gas_price + r.cfg.amount

EstimateSucceeded(r) == r.gas_estimate # -1

NonZeroExit(r) == r.pc = "done" /\ r.outcome \in {"error", "panic"}
ZeroExit(r) == r.pc = "done" /\ r.outcome = "ok"

(***************************************************************************)
(* C1: when estimate_gas returns an error, neither submit nor              *)
(* await_receipt is invoked afterwards; submit is only ever invoked after  *)
(* a total cost was computed and found affordable.                         *)
(* The Err arm of the match (lines 82-85) does not return: the run goes on *)
(* to line 90.                                                             *)
(***************************************************************************)
C1_NoSubmitAfterEstimateError ==
  /\ Returned(run, "estimate_gas", FALSE) =>
       ~Called(run, "submit") /\ ~Called(run, "await_receipt")
  /\ Called(run, "submit") =>
       run.total_cost # -1 /\ Printed(run, "Sufficient funds available")

(***************************************************************************)
(* C2: when estimate_gas succeeds and gas_estimate * gas_price + amount    *)
(* (over the integers) exceeds the submitter's balance, submit and         *)
(* await_receipt are never invoked and the process exits with status 0.    *)
(* When the sum does not fit the integer type, line 70 panics instead.     *)
(***************************************************************************)
C2_InsufficientEndsOk ==
  (EstimateSucceeded(run) /\ MathTotalCost(run) > run.balance) =>
    /\ ~Called(run, "submit")
    /\ ~Called(run, "await_receipt")
    /\ ZeroExit(run)

(***************************************************************************)
(* C3: when every query and the estimate succeed and total cost <= the    *)
(* submitter's balance, then once the run is past line 90 submit has been  *)
(* invoked exactly once, on the configured contract, with the arguments    *)
(* (user, token, amount, nonce, signature) of the Configuration and value  *)
(* = amount, and it is the call that was given to estimate_gas.  submit is *)
(* never invoked twice.                                                    *)
(***************************************************************************)
C3_SubmitOnceWithConfiguredCall ==
  LET configured ==
        [to |-> run.cfg.contract_address,
         args |-> <<run.cfg.user, run.cfg.token, run.cfg.amount,
                    run.cfg.nonce, run.cfg.signature>>,
         value |-> run.cfg.amount]
  IN
  /\ Count(run, "submit") <= 1
  /\ (/\ EstimateSucceeded(run)
      /\ MathTotalCost(run) <= run.balance
      /\ run.pc \in {"await", "done"}) =>
       /\ Count(run, "submit") = 1
       /\ \A i \in Events(run, "submit") :
            /\ run.trace[i].call = configured
            /\ \A j \in Events(run, "estimate_gas") :
                 j < i /\ run.trace[j].call = run.trace[i].call

C3_Witness ==
  /\ run.pc = "done"
  /\ EstimateSucceeded(run)
  /\ run.cfg.amount > 0
  /\ run.gas_estimate * run.gas_price > 0
  /\ MathTotalCost(run) = run.balance
  /\ Count(run, "submit") = 1

(***************************************************************************)
(* C4: the total cost that is compared with the balance is the exact       *)
(* product and sum, never a value reduced modulo 2^Width: whenever a total *)
(* cost exists it equals gas_estimate * gas_price + amount over the        *)
(* integers and the verdict is the comparison of that number with the      *)
(* balance; when the exact value does not fit, no comparison is made.      *)
(***************************************************************************)
C4_TotalCostDoesNotWrap ==
  /\ run.total_cost # -1 =>
       /\ run.total_cost = MathTotalCost(run)
       /\ Verdict(run) =
            IF MathTotalCost(run) > run.balance
            THEN {"INSUFFICIENT FUNDS"} ELSE {"Sufficient funds available"}
  /\ (EstimateSucceeded(run) /\ MathTotalCost(run) > MaxU256) =>
       /\ run.total_cost = -1
       /\ Verdict(run) = {}
       /\ ~Called(run, "submit")

C4_Witness ==
  /\ run.total_cost = MaxU256
  /\ run.gas_estimate > 1
  /\ run.gas_price > 1
  /\ run.cfg.amount > 0
  /\ Verdict(run) # {}

(***************************************************************************)
(* C5: when a receipt is reported, the label is "Success" exactly when the *)
(* receipt's status is present and equals 1, and "Failed" for any other    *)
(* status and for an absent status.                                        *)
(***************************************************************************)
C5_StatusLabelExact ==
  Printed(run, "Transaction mined") =>
    /\ run.receipt # <<>>
    /\ Printed(run, "Status: Success") <=> run.receipt[1].status = <<1>>
    /\ Printed(run, "Status: Failed") <=> run.receipt[1].status # <<1>>

C5_Witness ==
  /\ Printed(run, "Status: Failed")
  /\ run.receipt # <<>>
  /\ run.receipt[1].status = <<MaxStatus>>

(***************************************************************************)
(* C6: after a successful submit, an absent receipt is reported as         *)
(* "receipt not found" and a receipt with a failure status is reported as  *)
(* "Failed"; the two reports are distinct and both runs exit with status   *)
(* 0.                                                                      *)
(***************************************************************************)
C6_AbsentAndFailedReceiptsReported ==
  Returned(run, "await_receipt", TRUE) =>
    /\ Returned(run, "submit", TRUE)
    /\ ZeroExit(run)
    /\ run.receipt = <<>> =>
         /\ Printed(run, "Transaction receipt not found")
         /\ ~Printed(run, "Transaction mined")
         /\ ~Printed(run, "Status: Failed")
         /\ ~Printed(run, "Status: Success")
    /\ (run.receipt # <<>> /\ run.receipt[1].status # <<1>>) =>
         /\ Printed(run, "Transaction mined")
         /\ Printed(run, "Status: Failed")
         /\ ~Printed(run, "Transaction receipt not found")

C6_Witness ==
  /\ Returned(run, "await_receipt", TRUE)
  /\ run.receipt = <<>>
  /\ Printed(run, "Transaction receipt not found")
  /\ ZeroExit(run)

(***************************************************************************)
(* C7: when a required variable is absent or does not parse, no chain      *)
(* operation is ever invoked and the run can only end with a non-zero      *)
(* exit.                                                                   *)
(***************************************************************************)
Rejected(opt, Parse(_)) == opt = <<>> \/ Parse(opt[1]) = <<>>

EnvBad(e) ==
  \/ Rejected(e.RPC_URL, ParseUrl)
  \/ Rejected(e.PRIVATE_KEY, ParseWallet)
  \/ Rejected(e.CHAIN_ID, ParseChainId)
  \/ Rejected(e.CONTRACT_ADDRESS, ParseAddress)
  \/ Rejected(e.USER_ADDRESS, ParseAddress)
  \/ Rejected(e.TOKEN_ADDRESS, ParseAddress)
  \/ Rejected(e.AMOUNT, FromDecStr)
  \/ Rejected(e.NONCE, FromHexStr)
  \/ Rejected(e.SIGNATURE, ParseBytes)

C7_BadConfigNoChainActivity ==
  EnvBad(env) =>
    /\ ChainCalls(run) = <<>>
    /\ run.pc \in {"load", "connect", "done"}
    /\ run.pc = "done" => run.outcome = "error"

C7_Witness ==
  /\ env.PRIVATE_KEY = <<"not a key">>
  /\ Printed(run, "=== Configuration ===")
  /\ NonZeroExit(run)

(***************************************************************************)
(* C8: when the broadcast is rejected, the run ends with a non-zero exit,  *)
(* await_receipt is never invoked, no receipt is reported and submit is    *)
(* not invoked again.                                                      *)
(***************************************************************************)
C8_RejectedBroadcastIsFatal ==
  Returned(run, "submit", FALSE) =>
    /\ NonZeroExit(run)
    /\ Count(run, "submit") = 1
    /\ ~Called(run, "await_receipt")
    /\ ~Printed(run, "Transaction Hash")
    /\ ~Printed(run, "Transaction mined")
    /\ ~Printed(run, "Transaction receipt not found")

C8_Witness ==
  /\ Returned(run, "submit", FALSE)
  /\ Printed(run, "Sufficient funds available")
  /\ run.pc = "done"

(***************************************************************************)
(* C9: get_gas_price, estimate_gas, submit and await_receipt are each      *)
(* invoked at most once; the chain operations occur only in the order      *)
(* balances, gas price, estimate, submit, await receipt, with the          *)
(* affordability verdict (when there is one) after the estimate and        *)
(* before the submit; await_receipt is invoked only after a submit that    *)
(* returned Ok.                                                            *)
(***************************************************************************)
Pipeline ==
  <<"get_balance", "get_balance", "get_gas_price", "estimate_gas", "submit",
    "await_receipt">>

C9_EachStepOnceInOrder ==
  /\ \A op \in ChainOps \ {"get_balance"} : Count(run, op) <= 1
  /\ Len(ChainCalls(run)) <= Len(Pipeline)
  /\ OpNames(ChainCalls(run)) = SubSeq(Pipeline, 1, Len(ChainCalls(run)))
  /\ \A v \in Verdict(run) : \A i \in Events(run, v) :
       /\ \E j \in Events(run, "estimate_gas") : j < i /\ run.trace[j].ok
       /\ \A j \in Events(run, "submit") : i < j
  /\ Called(run, "await_receipt") => Returned(run, "submit", TRUE)

C9_Witness ==
  /\ OpNames(ChainCalls(run)) = Pipeline
  /\ Verdict(run) # {}
  /\ run.pc = "done"

(***************************************************************************)
(* C10: the target user's balance is display-only.  Two runs that differ   *)
(* only in the value returned by get_balance(user) make the same chain     *)
(* calls with the same arguments and results, reach the same verdict and   *)
(* end with the same outcome; the verdict is the comparison of the total   *)
(* cost with the submitting wallet's balance.                              *)
(***************************************************************************)
C10_UserBalanceIsDisplayOnly ==
  /\ ChainCalls(run) = ChainCalls(shadow)
  /\ Verdict(run) = Verdict(shadow)
  /\ run.pc = shadow.pc
  /\ run.outcome = shadow.outcome
  /\ Verdict(run) # {} =>
       (Printed(run, "INSUFFICIENT FUNDS") <=> run.total_cost > run.balance)

C10_Witness ==
  /\ run.user_balance # shadow.user_balance
  /\ run.pc = "done"
  /\ shadow.pc = "done"
  /\ Printed(run, "Sufficient funds available")
  /\ run.total_cost > run.user_balance
  /\ shadow.total_cost <= shadow.user_balance
  /\ Called(run, "submit")
  /\ Called(shadow, "submit")

====
